---------------------------- MODULE Spec2Model ----------------------------
(***************************************************************************)
(* DocMarkings (src/src/App.tsx): the multi-document session of the editor *)
(* shell.  The state is the React state of App (tabs, activeTabId,         *)
(* recentFiles), the content mounted in the TipTap editor, the             *)
(* localStorage entry of the recent files, the wall clock read by          *)
(* Date.now(), and the event handlers suspended at an await.               *)
(*                                                                         *)
(* One step is one event handled to its next suspension point, followed by *)
(* the render React commits for it and the effects of that render (the     *)
(* tab/editor synchronisation of App.tsx:226-230).  A handler resumed      *)
(* after an await runs with the values its closure captured when the       *)
(* event was dispatched; the functional updates setTabs(prev => ...) read  *)
(* the current list.                                                       *)
(*                                                                         *)
(* Strings of the program that are inspected character by character        *)
(* (document content, file text) are sequences of one-character strings.   *)
(***************************************************************************)
EXTENDS Integers, Sequences, FiniteSets, TLC

VARIABLES
    tabs,          \* useState<Tab[]>            App.tsx:32
    activeTabId,   \* useState<string>           App.tsx:43
    recentFiles,   \* useState<string[]>         App.tsx:49
    storage,       \* localStorage['docmarkings-recent-files']; <<>>: no item
    editorHTML,    \* editor.getHTML(): the content mounted in the surface
    now,           \* the value Date.now() returns
    pending,       \* handlers suspended at an await, with their closures
    windowOpen,    \* FALSE once the window has been closed
    reply,         \* what the host last answered to a suspended handler
    dialog         \* the state of FindReplaceDialog, while it is mounted

vars == <<tabs, activeTabId, recentFiles, storage, editorHTML, now, pending,
          windowOpen, reply, dialog>>

---------------------------------------------------------------------------
(* Bounds of the model. *)

\* Tabs the registry may hold before "new tab" is no longer offered.
MaxTabs == 2

\* Last millisecond of the clock (tab-1 is the initial tab; Date.now() is
\* never 1, so the clock starts at 2).
MaxNow == 3

\* Handlers that may be suspended at an await at the same time.
MaxPending == 1

\* Tabs the registry may hold in the specification of the tab bar.
MaxBarTabs == 3

\* Longest content, in characters of its HTML, a replacement may produce.
MaxContentLen == 10

\* Handlers that may be suspended at the same time in the specification of
\* the overlapping file operations.
MaxOverlap == 2

---------------------------------------------------------------------------
(* Program constants and the strings of the model. *)

\* slice(0, 10) of addToRecentFiles.
RecentCapacity == 10

\* The number in the initial tab's id, 'tab-1'; `tab-${Date.now()}` is
\* modelled by the number Date.now() returned.
InitialTabId == 1

\* filePath: null
Null == "null"

Untitled == "Untitled"

\* The paths the file dialogs may return and their last segment as
\* path.split('\\').pop() || path.split('/').pop() || 'Untitled' computes it:
\* a path without a backslash is its own last segment.
Paths == {"C:\\docs\\a.md", "/home/b.md"}

fileNameOf(path) ==
    CASE path = "C:\\docs\\a.md" -> "a.md"
      [] path = "/home/b.md" -> "/home/b.md"
      [] OTHER -> Untitled

POpen == <<"<", "p", ">">>
PClose == <<"<", "/", "p", ">">>
Br == <<"<", "b", "r", ">">>

Para(s) == POpen \o s \o PClose

\* '<p></p>', the serialization of the empty document.
EmptyDoc == Para(<<>>)

\* The documents the user's editing produces in the tab session, and in the
\* file operations.
Docs == {EmptyDoc, Para(<<"a">>)}

FileDocs == Docs \cup {Para(<<"b">>)}

\* The texts a file read may return.
FileTexts == {<<"a">>, <<"a", "\n", "b">>}

---------------------------------------------------------------------------
(* Pure functions of the program. *)

\* content.replace(/\n/g, '<br>')
RECURSIVE markdownToHtml(_)
markdownToHtml(text) ==
    IF text = <<>> THEN <<>>
    ELSE (IF Head(text) = "\n" THEN Br ELSE <<Head(text)>>)
             \o markdownToHtml(Tail(text))

IsPrefix(p, s) == Len(p) <= Len(s) /\ SubSeq(s, 1, Len(p)) = p

IsSuffix(p, s) ==
    Len(p) <= Len(s) /\ SubSeq(s, Len(s) - Len(p) + 1, Len(s)) = p

\* editor.commands.setContent(content) followed by editor.getHTML(): the
\* editor parses the content into its schema, in which inline content
\* lives in a paragraph, and serializes the document it holds.
setContentThenGetHTML(content) ==
    IF IsPrefix(POpen, content) /\ IsSuffix(PClose, content)
    THEN content
    ELSE Para(content)

Ids(ts) == {ts[i].id : i \in DOMAIN ts}

\* tabs.findIndex(tab => tab.id === id), 1-based; 0 for JavaScript's -1.
findIndex(ts, id) ==
    IF id \in Ids(ts)
    THEN CHOOSE i \in DOMAIN ts :
             ts[i].id = id /\ \A j \in DOMAIN ts : ts[j].id = id => i <= j
    ELSE 0

\* const activeTab = tabs.find(tab => tab.id === activeTabId) || tabs[0]
activeTabOf(ts, id) == IF findIndex(ts, id) = 0 THEN ts[1] ELSE ts[findIndex(ts, id)]

\* The Tab literal of createNewTab and of closeTab.  persisted is a history
\* field, not a field of the program: the content last opened into or
\* saved from the tab.
newTab(id) ==
    [id |-> id, title |-> Untitled, filePath |-> Null, content |-> <<>>,
     isModified |-> FALSE, persisted |-> <<>>]

updateTabContent(ts, tabId, content, isModified) ==
    [i \in DOMAIN ts |->
        IF ts[i].id = tabId
        THEN [ts[i] EXCEPT !.content = content, !.isModified = isModified]
        ELSE ts[i]]

\* updateTabFile without the reset of the flag.
updateTabFile_keepsFlag(ts, tabId, filePath, title, isModified) ==
    [i \in DOMAIN ts |->
        IF ts[i].id = tabId
        THEN [ts[i] EXCEPT !.filePath = filePath, !.title = title]
        ELSE ts[i]]

updateTabFile(ts, tabId, filePath, title, isModified) ==
    [i \in DOMAIN ts |->
        IF ts[i].id = tabId
        THEN [ts[i] EXCEPT !.filePath = filePath, !.title = title,
                           !.isModified = isModified]
        ELSE ts[i]]

\* onUpdate's flag without the comparison to '<p></p>'.
isModifiedOnUpdate_noSentinel(newContent, activeContent) ==
    newContent # activeContent

\* const isModified = newContent !== '<p></p>' && newContent !== activeTab.content
isModifiedOnUpdate(newContent, activeContent) ==
    newContent # EmptyDoc /\ newContent # activeContent

\* The list closeTab's updater returns.
closeTabList(prev, tabId, clock) ==
    LET filtered == SelectSeq(prev, LAMBDA t : t.id # tabId)
    IN  IF Len(filtered) = 0 THEN <<newTab(clock)>> ELSE filtered

\* The active id after closeTab, whose closure holds activeTabId `captured`.
closeTabActive(prev, tabId, captured, current) ==
    LET filtered == SelectSeq(prev, LAMBDA t : t.id # tabId)
    IN  IF tabId = captured /\ Len(filtered) > 0
        THEN filtered[Len(filtered)].id
        ELSE current

\* The tab/editor synchronisation effect: it runs after a render in which
\* activeTab.id or activeTab.content differ from the render before, and
\* mounts the active tab's content (setContent emits no update event).
syncEditor(oldTabs, oldActive, newTabs, newActive, mounted) ==
    LET o == activeTabOf(oldTabs, oldActive)
        n == activeTabOf(newTabs, newActive)
    IN  IF o.id # n.id \/ o.content # n.content
        THEN setContentThenGetHTML(n.content)
        ELSE mounted

---------------------------------------------------------------------------
(* State. *)

\* reply records, for the step that resumes a suspended handler, which
\* handler it was and what the host answered; it is a history variable.
replyOf(kind, result) == [kind |-> kind, result |-> result]

NoReply == replyOf("none", "none")

\* FindReplaceDialog's useState values at its mount (FindReplaceDialog.tsx:
\* 21-25); open is App's showFindReplace.  The dialog that is not shown holds
\* these values with open FALSE.
\* listener is the keyboard effect's handleKeyDown (FindReplaceDialog.tsx:
\* 83-99), as a list of one record: the findText, replaceText and
\* caseSensitive of the render in which the effect last ran, which that
\* render's findNext and replaceNext close over.  It is read by the keys
\* only, and kept in the specification of the keys only: the empty list
\* elsewhere.
dialogMounted ==
    [open |-> TRUE, findText |-> <<>>, replaceText |-> <<>>,
     caseSensitive |-> FALSE, totalMatches |-> 0, listener |-> <<>>]

dialogUnmounted == [dialogMounted EXCEPT !.open = FALSE]

\* The values the dialog d shows.
shownValues(d) ==
    [findText |-> d.findText, replaceText |-> d.replaceText,
     caseSensitive |-> d.caseSensitive]

\* The state of App.
appState == <<tabs, activeTabId, recentFiles>>

\* The keyboard effect of the dialog in a step of App that is not a step of
\* the dialog.  Its dependency is onClose, the inline arrow of App's render
\* (App.tsx:560): when App's state changes App renders, the dialog gets a
\* new onClose, and the effect installs the handleKeyDown of that render.
\* A step that leaves App's state as it was renders nothing.
KeyboardEffect ==
    dialog' = IF dialog.open /\ dialog.listener # <<>> /\ appState' # appState
              THEN [dialog EXCEPT !.listener = <<shownValues(dialog)>>]
              ELSE dialog

Init ==
    /\ dialog = dialogUnmounted
    /\ tabs = <<newTab(InitialTabId)>>
    /\ activeTabId = InitialTabId
    /\ recentFiles = <<>>
    /\ storage = <<>>
    /\ editorHTML = setContentThenGetHTML(<<>>)
    /\ now = 2
    /\ pending = {}
    /\ windowOpen = TRUE
    /\ reply = NoReply

\* The render committed for a handler and the effects of that render.
Commit(newTabs, newActive, mounted) ==
    /\ tabs' = newTabs
    /\ activeTabId' = newActive
    /\ editorHTML' = syncEditor(tabs, activeTabId, newTabs, newActive, mounted)

\* Date.now() advances between two events.
Tick ==
    /\ windowOpen
    /\ now < MaxNow
    /\ now' = now + 1
    /\ reply' = NoReply
    /\ UNCHANGED <<tabs, activeTabId, recentFiles, storage, editorHTML,
                   pending, windowOpen>>
    /\ KeyboardEffect

\* createNewTab that puts the new tab first.
CreateNewTabAmong_prepends(limit) ==
    /\ windowOpen
    /\ Len(tabs) < limit
    /\ Commit(<<newTab(now)>> \o tabs, now, editorHTML)
    /\ reply' = NoReply
    /\ UNCHANGED <<recentFiles, storage, now, pending, windowOpen>>
    /\ KeyboardEffect

\* createNewTab (Ctrl+T, Ctrl+N, the toolbar's New, the tab bar's +), offered
\* while the registry holds fewer than `limit` tabs.
CreateNewTabAmong(limit) ==
    /\ windowOpen
    /\ Len(tabs) < limit
    /\ Commit(Append(tabs, newTab(now)), now, editorHTML)
    /\ reply' = NoReply
    /\ UNCHANGED <<recentFiles, storage, now, pending, windowOpen>>
    /\ KeyboardEffect

CreateNewTab == CreateNewTabAmong(MaxTabs)

\* A click on a tab that mounts the tab's content whether or not the
\* active tab changed.
SelectTab_remounts(id) ==
    /\ windowOpen
    /\ id \in Ids(tabs)
    /\ tabs' = tabs
    /\ activeTabId' = id
    /\ editorHTML' = setContentThenGetHTML(activeTabOf(tabs, id).content)
    /\ reply' = NoReply
    /\ UNCHANGED <<recentFiles, storage, now, pending, windowOpen>>
    /\ KeyboardEffect

\* onTabSelect={setActiveTabId}: a click on a tab of the tab bar.
SelectTab(id) ==
    /\ windowOpen
    /\ id \in Ids(tabs)
    /\ Commit(tabs, id, editorHTML)
    /\ reply' = NoReply
    /\ UNCHANGED <<recentFiles, storage, now, pending, windowOpen>>
    /\ KeyboardEffect

\* setActiveTabId(id), the function TabBar is given as onTabSelect, called
\* with any id: it holds no test of the id.
SetActiveTabId(id) ==
    /\ windowOpen
    /\ Commit(tabs, id, editorHTML)
    /\ reply' = NoReply
    /\ UNCHANGED <<recentFiles, storage, now, pending, windowOpen>>
    /\ KeyboardEffect

\* onUpdate: the editor's content changed to newContent by the user's
\* editing.
OnUpdate(newContent) ==
    /\ windowOpen
    /\ Commit(updateTabContent(tabs, activeTabId, newContent,
                  isModifiedOnUpdate(newContent,
                                     activeTabOf(tabs, activeTabId).content)),
              activeTabId, newContent)
    /\ reply' = NoReply
    /\ UNCHANGED <<recentFiles, storage, now, pending, windowOpen>>
    /\ KeyboardEffect

\* The position, 1-based, of the tab Ctrl+Tab activates:
\* (currentIndex + 1) % tabs.length, with currentIndex -1 when no tab has
\* the id.
cycleNextIndex(ts, id) ==
    LET currentIndex == findIndex(ts, id) - 1
    IN  ((currentIndex + 1) % Len(ts)) + 1

\* The position, 1-based, of the tab Ctrl+Shift+Tab activates:
\* currentIndex === 0 ? tabs.length - 1 : currentIndex - 1.  It is outside
\* the list when currentIndex is -1.
cyclePreviousIndex(ts, id) ==
    LET currentIndex == findIndex(ts, id) - 1
    IN  (IF currentIndex = 0 THEN Len(ts) - 1 ELSE currentIndex - 1) + 1

\* handleKeyDown, Ctrl+Tab: cycle to the next tab.
CycleNext ==
    /\ windowOpen
    /\ Commit(tabs, tabs[cycleNextIndex(tabs, activeTabId)].id, editorHTML)
    /\ reply' = NoReply
    /\ UNCHANGED <<recentFiles, storage, now, pending, windowOpen>>
    /\ KeyboardEffect

\* handleKeyDown, Ctrl+Shift+Tab: cycle to the previous tab.  With
\* currentIndex -1 the index is -2, tabs[-2] is undefined and reading its id
\* throws: the listener ends with no state set.
CyclePrevious ==
    /\ windowOpen
    /\ IF cyclePreviousIndex(tabs, activeTabId) \in DOMAIN tabs
       THEN Commit(tabs, tabs[cyclePreviousIndex(tabs, activeTabId)].id,
                   editorHTML)
       ELSE UNCHANGED <<tabs, activeTabId, editorHTML>>
    /\ reply' = NoReply
    /\ UNCHANGED <<recentFiles, storage, now, pending, windowOpen>>
    /\ KeyboardEffect

---------------------------------------------------------------------------
(* Suspended handlers.  A record of pending is a handler waiting at an     *)
(* await: pc names the await, active is the activeTabId of its closure,    *)
(* recent the recentFiles of the addToRecentFiles / removeFromRecentFiles  *)
(* of its closure, tabId the argument of handleCloseTab, path and html the *)
(* handler's locals.  agreed is a history field, not a value of the        *)
(* program: the content the user agreed to discard by answering yes to     *)
(* the prompt of an open, as a list of one content, empty before that; it  *)
(* is kept in the specification of the edits made during an open only.     *)
(* source is a history field too: the id of the tab whose content a save   *)
(* read with editor.getHTML(), the tab of its closure until the save       *)
(* dialog is closed; the tab shown at that moment is recorded in the       *)
(* specification of the saves across tabs only.                            *)

suspended(kind, pc, tabId, active, path, html, recent) ==
    [kind |-> kind, pc |-> pc, tabId |-> tabId, active |-> active,
     path |-> path, html |-> html, recent |-> recent, agreed |-> <<>>,
     source |-> active]

CanSuspend == Cardinality(pending) < MaxPending

\* checkUnsavedChanges' result for the answer of confirm(): shouldDiscard,
\* and false when confirm() throws.
ConfirmAnswers == {"yes", "no", "error"}

\* checkUnsavedChanges whose catch returns true.
checkUnsavedChangesResult_catchTrue(answer) == answer \in {"yes", "error"}

\* checkUnsavedChanges whose result the caller does not honour.
checkUnsavedChangesResult_ignored(answer) == TRUE

checkUnsavedChangesResult(answer) == answer = "yes"

\* closeTab(tabId) of a closure that holds activeTabId `captured`.
CloseTab(tabId, captured) ==
    Commit(closeTabList(tabs, tabId, now),
           closeTabActive(tabs, tabId, captured, activeTabId),
           editorHTML)

\* handleCloseTab(tabId): the tab bar's close button of a tab, or Ctrl+W
\* with activeTabId.
HandleCloseTab(tabId) ==
    /\ windowOpen
    /\ reply' = NoReply
    /\ UNCHANGED <<recentFiles, storage, now, windowOpen>>
    /\ IF findIndex(tabs, tabId) = 0
       THEN UNCHANGED <<tabs, activeTabId, editorHTML, pending>>
       ELSE IF tabs[findIndex(tabs, tabId)].isModified
       THEN /\ CanSuspend
            /\ pending' = pending \cup
                   {suspended("close", "confirm", tabId, activeTabId, Null,
                              <<>>, recentFiles)}
            /\ UNCHANGED <<tabs, activeTabId, editorHTML>>
       ELSE /\ CloseTab(tabId, activeTabId)
            /\ UNCHANGED pending
    /\ KeyboardEffect

\* handleCloseTab resumed with the answer of the discard prompt.
CloseTabAnswered(op, answer) ==
    /\ windowOpen
    /\ op.kind = "close" /\ op.pc = "confirm"
    /\ reply' = replyOf("close", answer)
    /\ pending' = pending \ {op}
    /\ UNCHANGED <<recentFiles, storage, now, windowOpen>>
    /\ IF checkUnsavedChangesResult(answer)
       THEN CloseTab(op.tabId, op.active)
       ELSE UNCHANGED <<tabs, activeTabId, editorHTML>>
    /\ KeyboardEffect

\* handleWindowClose: the host's close request.
HandleWindowClose ==
    /\ windowOpen
    /\ reply' = NoReply
    /\ UNCHANGED <<tabs, activeTabId, recentFiles, storage, editorHTML, now>>
    /\ IF ~ \E i \in DOMAIN tabs : tabs[i].isModified
       THEN /\ windowOpen' = FALSE
            /\ UNCHANGED pending
       ELSE IF activeTabOf(tabs, activeTabId).isModified
       THEN /\ CanSuspend
            /\ pending' = pending \cup
                   {suspended("window", "confirm", 0, activeTabId, Null,
                              <<>>, recentFiles)}
            /\ UNCHANGED windowOpen
       ELSE /\ windowOpen' = FALSE
            /\ UNCHANGED pending
    /\ KeyboardEffect

\* handleWindowClose resumed with the answer of the discard prompt.
WindowCloseAnswered(op, answer) ==
    /\ windowOpen
    /\ op.kind = "window" /\ op.pc = "confirm"
    /\ reply' = replyOf("window", answer)
    /\ pending' = pending \ {op}
    /\ windowOpen' = ~ checkUnsavedChangesResult(answer)
    /\ UNCHANGED <<tabs, activeTabId, recentFiles, storage, editorHTML, now>>
    /\ KeyboardEffect

---------------------------------------------------------------------------
(* Recent files. *)

take(s, n) == IF Len(s) <= n THEN s ELSE SubSeq(s, 1, n)

\* addToRecentFiles without the filter.
addToRecentList_noFilter(recent, filePath) ==
    take(<<filePath>> \o recent, RecentCapacity)

\* [filePath, ...recentFiles.filter(f => f !== filePath)].slice(0, 10)
addToRecentList(recent, filePath) ==
    take(<<filePath>> \o SelectSeq(recent, LAMBDA f : f # filePath),
         RecentCapacity)

\* recentFiles.filter(f => f !== filePath)
removeFromRecentList(recent, filePath) ==
    SelectSeq(recent, LAMBDA f : f # filePath)

\* JSON.stringify of a list of strings, as the sequence of its tokens: the
\* brackets, the strings and the commas between them.
RECURSIVE stringifyItems(_)
stringifyItems(files) ==
    IF Len(files) <= 1 THEN files
    ELSE <<Head(files), ",">> \o stringifyItems(Tail(files))

stringify(files) == <<"[">> \o stringifyItems(files) \o <<"]">>

\* JSON.parse of such a text: the strings, which stand at its even
\* positions.
parse(text) == [i \in 1 .. (Len(text) - 1) \div 2 |-> text[2 * i]]

\* saveRecentFiles that sets the state whether or not the item was stored.
SaveRecentFiles_setsAnyway(files, stored) ==
    /\ recentFiles' = files
    /\ storage' = IF stored THEN stringify(files) ELSE storage

\* saveRecentFiles(files): localStorage.setItem, then setRecentFiles; when
\* setItem throws, the catch logs and nothing is set.
SaveRecentFiles(files, stored) ==
    IF stored
    THEN storage' = stringify(files) /\ recentFiles' = files
    ELSE UNCHANGED <<storage, recentFiles>>

---------------------------------------------------------------------------
(* File operations. *)

\* The history field of the tabs with id tabId.
recordPersisted(ts, tabId, content) ==
    [i \in DOMAIN ts |->
        IF ts[i].id = tabId THEN [ts[i] EXCEPT !.persisted = content]
        ELSE ts[i]]

\* updateTabFile(activeTabId, path, fileName); updateTabContent(activeTabId,
\* htmlContent, false) of handleOpenFile and handleOpenRecentFile.
openedInto(ts, tabId, path, htmlContent) ==
    recordPersisted(
        updateTabContent(
            updateTabFile(ts, tabId, path, fileNameOf(path), FALSE),
            tabId, htmlContent, FALSE),
        tabId, htmlContent)

\* updateTabFile(activeTabId, filePath, fileName, false) of handleSaveFile
\* and handleSaveAsFile, after htmlContent was written.
savedFrom(ts, tabId, path, htmlContent) ==
    recordPersisted(updateTabFile(ts, tabId, path, fileNameOf(path), FALSE),
                    tabId, htmlContent)

\* handleOpenFile whose guard prompts for any tab.
HandleOpenFile_alwaysAsks ==
    /\ windowOpen
    /\ CanSuspend
    /\ pending' = pending \cup
           {suspended("open", "confirm", 0, activeTabId, Null, <<>>,
                      recentFiles)}
    /\ reply' = NoReply
    /\ UNCHANGED <<tabs, activeTabId, recentFiles, storage, editorHTML, now,
                   windowOpen>>
    /\ KeyboardEffect

\* handleOpenFile (Ctrl+O, the toolbar's Open) up to its first await that
\* suspends: the discard prompt when the active tab is modified, the open
\* dialog otherwise.
HandleOpenFile ==
    /\ windowOpen
    /\ CanSuspend
    /\ pending' = pending \cup
           {suspended("open",
                      IF activeTabOf(tabs, activeTabId).isModified
                      THEN "confirm" ELSE "dialog",
                      0, activeTabId, Null, <<>>, recentFiles)}
    /\ reply' = NoReply
    /\ UNCHANGED <<tabs, activeTabId, recentFiles, storage, editorHTML, now,
                   windowOpen>>
    /\ KeyboardEffect

\* handleOpenRecentFile(filePath) (Ctrl+R with recentFiles[0], an entry of
\* the toolbar's list) up to its first await that suspends, while fewer than
\* `limit` handlers are suspended.
HandleOpenRecentFileAmong(limit, filePath) ==
    /\ windowOpen
    /\ Cardinality(pending) < limit
    /\ pending' = pending \cup
           {suspended("recent",
                      IF activeTabOf(tabs, activeTabId).isModified
                      THEN "confirm" ELSE "read",
                      0, activeTabId, filePath, <<>>, recentFiles)}
    /\ reply' = NoReply
    /\ UNCHANGED <<tabs, activeTabId, recentFiles, storage, editorHTML, now,
                   windowOpen>>
    /\ KeyboardEffect

HandleOpenRecentFile(filePath) ==
    HandleOpenRecentFileAmong(MaxPending, filePath)

\* handleOpenFile / handleOpenRecentFile resumed with the answer of the
\* discard prompt; noted is the value the history field agreed takes with
\* the answer yes.
OpenAnsweredNoting(op, answer, noted) ==
    /\ windowOpen
    /\ op.kind \in {"open", "recent"} /\ op.pc = "confirm"
    /\ reply' = replyOf(op.kind, answer)
    /\ pending' =
           IF checkUnsavedChangesResult(answer)
           THEN (pending \ {op}) \cup
                    {[op EXCEPT !.pc = IF op.kind = "open" THEN "dialog"
                                       ELSE "read",
                                !.agreed = noted]}
           ELSE pending \ {op}
    /\ UNCHANGED <<tabs, activeTabId, recentFiles, storage, editorHTML, now,
                   windowOpen>>
    /\ KeyboardEffect

OpenAnswered(op, answer) == OpenAnsweredNoting(op, answer, <<>>)

\* handleOpenFile resumed with the result of open(): a path, null when the
\* user cancels, or the dialog fails.
OpenDialogClosed(op, selected) ==
    /\ windowOpen
    /\ op.kind = "open" /\ op.pc = "dialog"
    /\ reply' = replyOf("open", IF selected \in Paths THEN "selected"
                                ELSE selected)
    /\ pending' =
           IF selected \in Paths
           THEN (pending \ {op}) \cup
                    {[op EXCEPT !.pc = "read", !.path = selected]}
           ELSE pending \ {op}
    /\ UNCHANGED <<tabs, activeTabId, recentFiles, storage, editorHTML, now,
                   windowOpen>>
    /\ KeyboardEffect

\* handleOpenFile / handleOpenRecentFile resumed with the text read.
FileRead(op, text, stored) ==
    /\ windowOpen
    /\ op.kind \in {"open", "recent"} /\ op.pc = "read"
    /\ reply' = replyOf(op.kind, "read")
    /\ pending' = pending \ {op}
    /\ Commit(openedInto(tabs, op.active, op.path, markdownToHtml(text)),
              activeTabId, editorHTML)
    /\ SaveRecentFiles(addToRecentList(op.recent, op.path), stored)
    /\ UNCHANGED <<now, windowOpen>>
    /\ KeyboardEffect

\* The catch of both open handlers removing the path from the recent files.
FileReadFailed_removesAlways(op, stored) ==
    /\ windowOpen
    /\ op.kind \in {"open", "recent"} /\ op.pc = "read"
    /\ reply' = replyOf(op.kind, "readError")
    /\ pending' = pending \ {op}
    /\ SaveRecentFiles(removeFromRecentList(op.recent, op.path), stored)
    /\ UNCHANGED <<tabs, activeTabId, editorHTML, now, windowOpen>>
    /\ KeyboardEffect

\* handleOpenFile / handleOpenRecentFile resumed with readTextFile failing:
\* the catch logs, and handleOpenRecentFile removes the path.
FileReadFailed(op, stored) ==
    /\ windowOpen
    /\ op.kind \in {"open", "recent"} /\ op.pc = "read"
    /\ reply' = replyOf(op.kind, "readError")
    /\ pending' = pending \ {op}
    /\ IF op.kind = "recent"
       THEN SaveRecentFiles(removeFromRecentList(op.recent, op.path), stored)
       ELSE stored /\ UNCHANGED <<storage, recentFiles>>
    /\ UNCHANGED <<tabs, activeTabId, editorHTML, now, windowOpen>>
    /\ KeyboardEffect

\* handleSaveFile (Ctrl+S, the toolbar's Save) up to its first await: the
\* save dialog when the active tab has no path, else the write of
\* editor.getHTML().
HandleSaveFile ==
    /\ windowOpen
    /\ CanSuspend
    /\ LET filePath == activeTabOf(tabs, activeTabId).filePath
       IN  pending' = pending \cup
               {IF filePath = Null
                THEN suspended("save", "dialog", 0, activeTabId, Null, <<>>,
                               recentFiles)
                ELSE suspended("save", "write", 0, activeTabId, filePath,
                               editorHTML, recentFiles)}
    /\ reply' = NoReply
    /\ UNCHANGED <<tabs, activeTabId, recentFiles, storage, editorHTML, now,
                   windowOpen>>
    /\ KeyboardEffect

\* handleSaveAsFile (Ctrl+Shift+S) up to the save dialog, while fewer than
\* `limit` handlers are suspended.
HandleSaveAsFileAmong(limit) ==
    /\ windowOpen
    /\ Cardinality(pending) < limit
    /\ pending' = pending \cup
           {suspended("save", "dialog", 0, activeTabId, Null, <<>>,
                      recentFiles)}
    /\ reply' = NoReply
    /\ UNCHANGED <<tabs, activeTabId, recentFiles, storage, editorHTML, now,
                   windowOpen>>
    /\ KeyboardEffect

HandleSaveAsFile == HandleSaveAsFileAmong(MaxPending)

\* handleSaveFile / handleSaveAsFile resumed with the result of save(): a
\* path, null when the user cancels, or the dialog fails.  With a path the
\* handler reads editor.getHTML() and awaits the write.  shown is recorded
\* as the tab the content was read from.
SaveDialogClosedNoting(op, selected, shown) ==
    /\ windowOpen
    /\ op.kind = "save" /\ op.pc = "dialog"
    /\ reply' = replyOf("save", IF selected \in Paths THEN "selected"
                                ELSE selected)
    /\ pending' =
           IF selected \in Paths
           THEN (pending \ {op}) \cup
                    {[op EXCEPT !.pc = "write", !.path = selected,
                                !.html = editorHTML, !.source = shown]}
           ELSE pending \ {op}
    /\ UNCHANGED <<tabs, activeTabId, recentFiles, storage, editorHTML, now,
                   windowOpen>>
    /\ KeyboardEffect

SaveDialogClosed(op, selected) == SaveDialogClosedNoting(op, selected, op.active)

\* handleSaveFile / handleSaveAsFile resumed after writeTextFile.
FileWritten(op, stored) ==
    /\ windowOpen
    /\ op.kind = "save" /\ op.pc = "write"
    /\ reply' = replyOf("save", "written")
    /\ pending' = pending \ {op}
    /\ Commit(savedFrom(tabs, op.active, op.path, op.html), activeTabId,
              editorHTML)
    /\ SaveRecentFiles(addToRecentList(op.recent, op.path), stored)
    /\ UNCHANGED <<now, windowOpen>>
    /\ KeyboardEffect

\* handleSaveFile / handleSaveAsFile resumed with writeTextFile failing.
FileWriteFailed(op) ==
    /\ windowOpen
    /\ op.kind = "save" /\ op.pc = "write"
    /\ reply' = replyOf("save", "writeError")
    /\ pending' = pending \ {op}
    /\ UNCHANGED <<tabs, activeTabId, recentFiles, storage, editorHTML, now,
                   windowOpen>>
    /\ KeyboardEffect

DialogResults == Paths \cup {"cancelled", "dialogError"}

Range(s) == {s[i] : i \in DOMAIN s}

---------------------------------------------------------------------------
(* Find and replace (src/src/components/FindReplaceDialog.tsx).  A regular *)
(* expression is the sequence of the atoms its source parses to; the       *)
(* sources the dialog builds hold, of the characters with a meaning in a   *)
(* pattern, only the backslash and the dot.                                *)

\* The characters of the class [.*+?^${}()|[\]\\] of escapeRegex.
RegexSpecial ==
    {".", "*", "+", "?", "^", "$", "{", "}", "(", ")", "|", "[", "]", "\\"}

\* escapeRegex that returns its argument.
escapeRegex_none(string) == string

\* string.replace(/[.*+?^${}()|[\]\\]/g, '\\$&')
RECURSIVE escapeRegex(_)
escapeRegex(string) ==
    IF string = <<>> THEN <<>>
    ELSE (IF Head(string) \in RegexSpecial
          THEN <<"\\", Head(string)>>
          ELSE <<Head(string)>>) \o escapeRegex(Tail(string))

\* new RegExp(source): a backslash makes the character after it an atom
\* that matches that character, a dot is an atom that matches any
\* character, another character an atom that matches itself.
RECURSIVE regExp(_)
regExp(source) ==
    IF source = <<>> THEN <<>>
    ELSE IF Head(source) = "\\" /\ Len(source) >= 2
    THEN <<[any |-> FALSE, ch |-> source[2]]>> \o regExp(Tail(Tail(source)))
    ELSE <<[any |-> Head(source) = ".", ch |-> Head(source)]>>
             \o regExp(Tail(source))

\* The canonical form of a character under the flag i.
canonicalize(ch) == IF ch = "A" THEN "a" ELSE ch

atomMatches(atom, ch, ignoreCase) ==
    \/ atom.any
    \/ IF ignoreCase THEN canonicalize(atom.ch) = canonicalize(ch)
       ELSE atom.ch = ch

\* The regular expression matches the characters of content from position i.
matchesAt(regex, content, i, ignoreCase) ==
    /\ i + Len(regex) - 1 <= Len(content)
    /\ \A k \in DOMAIN regex :
           atomMatches(regex[k], content[i + k - 1], ignoreCase)

\* content.match(regex) with the flag g, from position i on: the length of
\* the array of matches, 0 for null.
RECURSIVE matchCount(_, _, _, _)
matchCount(regex, content, i, ignoreCase) ==
    IF i + Len(regex) - 1 > Len(content) THEN 0
    ELSE IF matchesAt(regex, content, i, ignoreCase)
    THEN 1 + matchCount(regex, content, i + Len(regex), ignoreCase)
    ELSE matchCount(regex, content, i + 1, ignoreCase)

\* The text String.prototype.replace puts in the place of a match: in the
\* replacement, $$ stands for $ and $& for the matched text.
RECURSIVE getSubstitution(_, _)
getSubstitution(replacement, matched) ==
    IF replacement = <<>> THEN <<>>
    ELSE IF Len(replacement) >= 2 /\ replacement[1] = "$"
            /\ replacement[2] = "$"
    THEN <<"$">> \o getSubstitution(Tail(Tail(replacement)), matched)
    ELSE IF Len(replacement) >= 2 /\ replacement[1] = "$"
            /\ replacement[2] = "&"
    THEN matched \o getSubstitution(Tail(Tail(replacement)), matched)
    ELSE <<Head(replacement)>> \o getSubstitution(Tail(replacement), matched)

\* content.replace(regex, replacement) from position i on, of every match
\* with the flag g and of the first match without it.
RECURSIVE replaceFrom(_, _, _, _, _, _)
replaceFrom(regex, content, i, ignoreCase, replacement, global) ==
    IF i > Len(content) THEN <<>>
    ELSE IF matchesAt(regex, content, i, ignoreCase)
    THEN getSubstitution(replacement,
                         SubSeq(content, i, i + Len(regex) - 1))
         \o (IF global
             THEN replaceFrom(regex, content, i + Len(regex), ignoreCase,
                              replacement, global)
             ELSE SubSeq(content, i + Len(regex), Len(content)))
    ELSE <<content[i]>>
         \o replaceFrom(regex, content, i + 1, ignoreCase, replacement,
                        global)

\* findNext of a render whose state is d, on the editor's HTML: nothing is
\* set for an empty findText.
findNext(d, html) ==
    IF d.findText = <<>> THEN d
    ELSE [d EXCEPT !.totalMatches =
              matchCount(regExp(escapeRegex(d.findText)), html, 1,
                         ~d.caseSensitive)]

\* The newContent of replaceNext (global FALSE) and replaceAll (global TRUE).
newContentOf(d, html, global) ==
    replaceFrom(regExp(escapeRegex(d.findText)), html, 1, ~d.caseSensitive,
                d.replaceText, global)

\* Ctrl+F, Ctrl+H, the toolbar's button: setShowFindReplace(true).  The
\* dialog mounts and its effects run: findNext with the empty findText.
OpenFindReplace ==
    /\ windowOpen
    /\ dialog' = IF dialog.open THEN dialog
                 ELSE findNext(dialogMounted, editorHTML)
    /\ UNCHANGED <<tabs, activeTabId, recentFiles, storage, editorHTML, now,
                   pending, windowOpen, reply>>

\* The same with the keyboard effect of the mount kept: its handleKeyDown
\* closes over the values of the first render.
OpenFindReplaceListening ==
    /\ windowOpen
    /\ dialog' = IF dialog.open THEN dialog
                 ELSE findNext([dialogMounted EXCEPT !.listener =
                                    <<shownValues(dialogMounted)>>],
                               editorHTML)
    /\ UNCHANGED <<tabs, activeTabId, recentFiles, storage, editorHTML, now,
                   pending, windowOpen, reply>>

\* onClose (Escape, the dialog's two close buttons): the dialog unmounts.
CloseFindReplace ==
    /\ windowOpen
    /\ dialog.open
    /\ dialog' = dialogUnmounted
    /\ UNCHANGED <<tabs, activeTabId, recentFiles, storage, editorHTML, now,
                   pending, windowOpen, reply>>

\* The find input's onChange, and the effect on [findText, caseSensitive]
\* of the render it causes: findNext.
SetFindText(value) ==
    /\ windowOpen
    /\ dialog.open
    /\ value # dialog.findText
    /\ dialog' = findNext([dialog EXCEPT !.findText = value], editorHTML)
    /\ UNCHANGED <<tabs, activeTabId, recentFiles, storage, editorHTML, now,
                   pending, windowOpen, reply>>

\* The replace input's onChange.
SetReplaceText(value) ==
    /\ windowOpen
    /\ dialog.open
    /\ value # dialog.replaceText
    /\ dialog' = [dialog EXCEPT !.replaceText = value]
    /\ UNCHANGED <<tabs, activeTabId, recentFiles, storage, editorHTML, now,
                   pending, windowOpen, reply>>

\* The checkbox's onChange, and the effect of the render it causes.
SetCaseSensitive(checked) ==
    /\ windowOpen
    /\ dialog.open
    /\ checked # dialog.caseSensitive
    /\ dialog' = findNext([dialog EXCEPT !.caseSensitive = checked],
                          editorHTML)
    /\ UNCHANGED <<tabs, activeTabId, recentFiles, storage, editorHTML, now,
                   pending, windowOpen, reply>>

\* The Find Next button.
FindNextClicked ==
    /\ windowOpen
    /\ dialog.open
    /\ dialog' = findNext(dialog, editorHTML)
    /\ UNCHANGED <<tabs, activeTabId, recentFiles, storage, editorHTML, now,
                   pending, windowOpen, reply>>

\* The Replace button: replaceNext.  editor.commands.setContent emits no
\* update event, so that App's onUpdate does not run.
ReplaceNextClicked ==
    /\ windowOpen
    /\ dialog.open
    /\ IF dialog.findText = <<>>
          \/ newContentOf(dialog, editorHTML, FALSE) = editorHTML
       THEN UNCHANGED <<editorHTML, dialog>>
       ELSE /\ Len(newContentOf(dialog, editorHTML, FALSE)) <= MaxContentLen
            /\ editorHTML' = setContentThenGetHTML(
                                 newContentOf(dialog, editorHTML, FALSE))
            /\ dialog' = findNext(dialog, editorHTML')
    /\ UNCHANGED <<tabs, activeTabId, recentFiles, storage, now, pending,
                   windowOpen, reply>>

\* The Replace All button: replaceAll.
ReplaceAllClicked ==
    /\ windowOpen
    /\ dialog.open
    /\ IF dialog.findText = <<>>
          \/ newContentOf(dialog, editorHTML, TRUE) = editorHTML
       THEN UNCHANGED <<editorHTML, dialog>>
       ELSE /\ Len(newContentOf(dialog, editorHTML, TRUE)) <= MaxContentLen
            /\ editorHTML' = setContentThenGetHTML(
                                 newContentOf(dialog, editorHTML, TRUE))
            /\ dialog' = [dialog EXCEPT !.totalMatches = 0]
    /\ UNCHANGED <<tabs, activeTabId, recentFiles, storage, now, pending,
                   windowOpen, reply>>

---------------------------------------------------------------------------
(* Specifications. *)

\* The tab session: the tab bar, the keyboard's tab chords, typing, and the
\* window's close request.
Next ==
    \/ Tick
    \/ CreateNewTab
    \/ \E id \in Ids(tabs) : SelectTab(id)
    \/ \E c \in Docs : OnUpdate(c)
    \/ CycleNext
    \/ CyclePrevious
    \/ \E id \in Ids(tabs) \cup {activeTabId} : HandleCloseTab(id)
    \/ \E op \in pending, a \in ConfirmAnswers : CloseTabAnswered(op, a)
    \/ HandleWindowClose
    \/ \E op \in pending, a \in ConfirmAnswers : WindowCloseAnswered(op, a)

Spec == Init /\ [][Next]_vars

\* The file operations on the tabs of the session.
NextFiles ==
    \/ \E id \in Ids(tabs) : SelectTab(id)
    \/ \E c \in FileDocs : OnUpdate(c)
    \/ HandleOpenFile
    \/ \E f \in Range(recentFiles) : HandleOpenRecentFile(f)
    \/ \E op \in pending, a \in ConfirmAnswers : OpenAnswered(op, a)
    \/ \E op \in pending, r \in DialogResults : OpenDialogClosed(op, r)
    \/ \E op \in pending, t \in FileTexts, ok \in BOOLEAN : FileRead(op, t, ok)
    \/ \E op \in pending, ok \in BOOLEAN : FileReadFailed(op, ok)
    \/ HandleSaveFile
    \/ HandleSaveAsFile
    \/ \E op \in pending, r \in DialogResults : SaveDialogClosed(op, r)
    \/ \E op \in pending, ok \in BOOLEAN : FileWritten(op, ok)
    \/ \E op \in pending : FileWriteFailed(op)

SpecFiles == Init /\ [][NextFiles]_vars

\* The tab bar with one tab more: tabs are created, selected, cycled
\* through, typed into and closed.
BarDocs == {Para(<<"a">>)}

NextTabs ==
    \/ Tick
    \/ CreateNewTabAmong(MaxBarTabs)
    \/ \E id \in Ids(tabs) : SelectTab(id)
    \/ \E c \in BarDocs : OnUpdate(c)
    \/ CycleNext
    \/ CyclePrevious
    \/ \E id \in Ids(tabs) \cup {activeTabId} : HandleCloseTab(id)
    \/ \E op \in pending, a \in ConfirmAnswers : CloseTabAnswered(op, a)

SpecTabs == Init /\ [][NextTabs]_vars

\* The callers of checkUnsavedChanges in a session of one tab: closing the
\* tab, closing the window, opening a file and opening a recent file, with
\* the typing that makes the tab modified.
NextGuard ==
    \/ \E c \in BarDocs : OnUpdate(c)
    \/ \E id \in Ids(tabs) \cup {activeTabId} : HandleCloseTab(id)
    \/ \E op \in pending, a \in ConfirmAnswers : CloseTabAnswered(op, a)
    \/ HandleWindowClose
    \/ \E op \in pending, a \in ConfirmAnswers : WindowCloseAnswered(op, a)
    \/ HandleOpenFile
    \/ \E f \in Range(recentFiles) : HandleOpenRecentFile(f)
    \/ \E op \in pending, a \in ConfirmAnswers : OpenAnswered(op, a)
    \/ \E op \in pending, r \in DialogResults : OpenDialogClosed(op, r)
    \/ \E op \in pending, t \in FileTexts, ok \in BOOLEAN : FileRead(op, t, ok)
    \/ \E op \in pending, ok \in BOOLEAN : FileReadFailed(op, ok)

SpecGuard == Init /\ [][NextGuard]_vars

\* The ids a tab has or had: that of the initial tab and the values of the
\* clock.
TabIds == {InitialTabId} \cup (2 .. MaxNow)

\* The activation of a tab as a function of the id it is called with, in a
\* session in which tabs are created, typed into and closed.
NextActivate ==
    \/ Tick
    \/ CreateNewTab
    \/ \E c \in BarDocs : OnUpdate(c)
    \/ \E id \in TabIds : SetActiveTabId(id)
    \/ \E id \in Ids(tabs) \cup {activeTabId} : HandleCloseTab(id)
    \/ \E op \in pending, a \in ConfirmAnswers : CloseTabAnswered(op, a)

SpecActivate == Init /\ [][NextActivate]_vars

\* The edits made to the one tab of the session while an open or an open
\* of a recent file is suspended, with the history of what the user agreed
\* to discard.
NextOpenEdits ==
    \/ \E c \in FileDocs : OnUpdate(c)
    \/ HandleOpenFile
    \/ \E f \in Range(recentFiles) : HandleOpenRecentFile(f)
    \/ \E op \in pending, a \in ConfirmAnswers :
           OpenAnsweredNoting(op, a,
                              <<activeTabOf(tabs, op.active).content>>)
    \/ \E op \in pending, r \in DialogResults : OpenDialogClosed(op, r)
    \/ \E op \in pending, t \in FileTexts, ok \in BOOLEAN : FileRead(op, t, ok)
    \/ \E op \in pending, ok \in BOOLEAN : FileReadFailed(op, ok)

SpecOpenEdits == Init /\ [][NextOpenEdits]_vars

\* The dialog as the render of the listener saw it: the values
\* handleKeyDown's findNext and replaceNext close over, and the match count,
\* which they only set.
listenerRender(d) ==
    [d EXCEPT !.findText = d.listener[1].findText,
              !.replaceText = d.listener[1].replaceText,
              !.caseSensitive = d.listener[1].caseSensitive]

\* Enter: handleKeyDown calls its findNext, which sets the match count.
EnterPressed ==
    /\ windowOpen
    /\ dialog.open /\ dialog.listener # <<>>
    /\ dialog' = [dialog EXCEPT !.totalMatches =
                      findNext(listenerRender(dialog), editorHTML).totalMatches]
    /\ UNCHANGED <<tabs, activeTabId, recentFiles, storage, editorHTML, now,
                   pending, windowOpen, reply>>

\* Shift+Enter: handleKeyDown calls its replaceNext, which calls its
\* findNext after setContent.
ShiftEnterPressed ==
    /\ windowOpen
    /\ dialog.open /\ dialog.listener # <<>>
    /\ IF listenerRender(dialog).findText = <<>>
          \/ newContentOf(listenerRender(dialog), editorHTML, FALSE)
                 = editorHTML
       THEN UNCHANGED <<editorHTML, dialog>>
       ELSE /\ Len(newContentOf(listenerRender(dialog), editorHTML, FALSE))
                  <= MaxContentLen
            /\ editorHTML' = setContentThenGetHTML(
                                 newContentOf(listenerRender(dialog),
                                              editorHTML, FALSE))
            /\ dialog' = [dialog EXCEPT !.totalMatches =
                              findNext(listenerRender(dialog),
                                       editorHTML').totalMatches]
    /\ UNCHANGED <<tabs, activeTabId, recentFiles, storage, now, pending,
                   windowOpen, reply>>

\* Find and replace on the one tab of the session: what is typed into the
\* editor and into the dialog's inputs.
FindDocs == {Para(<<"a">>), Para(<<"a", "A", "a">>), Para(<<".", "a">>)}

FindTexts == {<<>>, <<"a">>, <<"A">>, <<".">>, <<"a", "a">>}

ReplaceTexts == {<<>>, <<"a">>, <<"$", "$">>, <<".", "a">>}

NextFind ==
    \/ \E c \in FindDocs : OnUpdate(c)
    \/ OpenFindReplace
    \/ CloseFindReplace
    \/ \E q \in FindTexts : SetFindText(q)
    \/ \E r \in ReplaceTexts : SetReplaceText(r)
    \/ \E b \in BOOLEAN : SetCaseSensitive(b)
    \/ FindNextClicked
    \/ ReplaceNextClicked
    \/ ReplaceAllClicked

SpecFind == Init /\ [][NextFind]_vars

\* The keys of the dialog: the document is typed, the dialog's fields are
\* set, and Enter and Shift+Enter are pressed; the listener is kept.
KeyDocs == {Para(<<"a">>), Para(<<"a", "A", "a">>)}

KeyFindTexts == {<<>>, <<"a">>, <<"A">>}

KeyReplaceTexts == {<<>>, <<"b">>}

NextKeys ==
    \/ \E c \in KeyDocs : OnUpdate(c)
    \/ OpenFindReplaceListening
    \/ CloseFindReplace
    \/ \E q \in KeyFindTexts : SetFindText(q)
    \/ \E r \in KeyReplaceTexts : SetReplaceText(r)
    \/ \E b \in BOOLEAN : SetCaseSensitive(b)
    \/ EnterPressed
    \/ ShiftEnterPressed

SpecKeys == Init /\ [][NextKeys]_vars

\* File operations that overlap at their awaits, on the one tab of the
\* session: a save-as and an open of a recent file are started while
\* another handler is suspended.
NextOverlap ==
    \/ HandleSaveAsFileAmong(MaxOverlap)
    \/ \E f \in Range(recentFiles) : HandleOpenRecentFileAmong(MaxOverlap, f)
    \/ \E op \in pending, r \in DialogResults : SaveDialogClosed(op, r)
    \/ \E op \in pending, ok \in BOOLEAN : FileWritten(op, ok)
    \/ \E op \in pending : FileWriteFailed(op)
    \/ \E op \in pending, t \in FileTexts, ok \in BOOLEAN : FileRead(op, t, ok)
    \/ \E op \in pending, ok \in BOOLEAN : FileReadFailed(op, ok)

SpecOverlap == Init /\ [][NextOverlap]_vars

\* Saves across tabs: a second tab is created, tabs are selected and edited
\* while a save or a save-as waits on its dialog or on its write.  The tab
\* shown when the handler reads editor.getHTML() is recorded.
NextSaveTabs ==
    \/ CreateNewTab
    \/ \E id \in Ids(tabs) : SelectTab(id)
    \/ \E c \in FileDocs : OnUpdate(c)
    \/ HandleSaveFile
    \/ HandleSaveAsFile
    \/ \E op \in pending, r \in DialogResults :
           SaveDialogClosedNoting(op, r, activeTabOf(tabs, activeTabId).id)
    \/ \E op \in pending, ok \in BOOLEAN : FileWritten(op, ok)
    \/ \E op \in pending : FileWriteFailed(op)

SpecSaveTabs == Init /\ [][NextSaveTabs]_vars

\* The recent files alone: addToRecentFiles and removeFromRecentFiles applied
\* one after the other, as the file operations call them, on paths of a
\* pool that holds one path more than the list's capacity.  The n-th path of
\* the pool is modelled by n.
RecentPaths == 1 .. RecentCapacity + 1

\* The first path of the pool that is not in the list.
firstUnused(recent) ==
    CHOOSE q \in RecentPaths \ Range(recent) :
        \A r \in RecentPaths \ Range(recent) : q <= r

\* The list holds its paths in the order the pool gave them out, the last
\* one first: no path of it was added again.  The paths of such a list are
\* added again; any list is added the first unused path.
inOrderOfFirstUse(recent) ==
    \A i \in 1 .. Len(recent) - 1 : recent[i] > recent[i + 1]

\* The list holds the first paths of the pool, the last one first: no path
\* was added again or removed.  The paths of such a list are removed.
firstPathsInOrder(recent) ==
    \A i \in DOMAIN recent : recent[i] = Len(recent) - i + 1

\* addToRecentFiles(filePath), with saveRecentFiles.
AddToRecentFiles(filePath, stored) ==
    /\ windowOpen
    /\ \/ filePath = firstUnused(recentFiles)
       \/ filePath \in Range(recentFiles) /\ inOrderOfFirstUse(recentFiles)
    /\ SaveRecentFiles(addToRecentList(recentFiles, filePath), stored)
    /\ reply' = NoReply
    /\ UNCHANGED <<tabs, activeTabId, editorHTML, now, pending, windowOpen>>
    /\ KeyboardEffect

\* removeFromRecentFiles(filePath), with saveRecentFiles.
RemoveFromRecentFiles(filePath, stored) ==
    /\ windowOpen
    /\ filePath \in Range(recentFiles)
    /\ firstPathsInOrder(recentFiles)
    /\ SaveRecentFiles(removeFromRecentList(recentFiles, filePath), stored)
    /\ reply' = NoReply
    /\ UNCHANGED <<tabs, activeTabId, editorHTML, now, pending, windowOpen>>
    /\ KeyboardEffect

NextRecent ==
    \/ \E f \in RecentPaths, ok \in BOOLEAN : AddToRecentFiles(f, ok)
    \/ \E f \in RecentPaths, ok \in BOOLEAN : RemoveFromRecentFiles(f, ok)

SpecRecent == Init /\ [][NextRecent]_vars

\* The items an earlier session may have left in localStorage: none, or
\* the text saveRecentFiles stored for a list.
StoredAtStartup ==
    {<<>>} \cup {stringify(files) : files \in {<<>>, <<1>>, <<2, 1>>}}

\* loadRecentFiles: the list setRecentFiles is given, JSON.parse of the
\* item, and the list of useState when there is no item.
loadRecentFiles(saved) == IF saved = <<>> THEN <<>> ELSE parse(saved)

\* The state after the first render and its effects, of which
\* loadRecentFiles is one, in a session that finds a stored list.
InitHydrated ==
    /\ dialog = dialogUnmounted
    /\ tabs = <<newTab(InitialTabId)>>
    /\ activeTabId = InitialTabId
    /\ storage \in StoredAtStartup
    /\ recentFiles = loadRecentFiles(storage)
    /\ editorHTML = setContentThenGetHTML(<<>>)
    /\ now = 2
    /\ pending = {}
    /\ windowOpen = TRUE
    /\ reply = NoReply

\* The recent files of a session that starts with a stored list.
SpecHydrated == InitHydrated /\ [][NextRecent]_vars

---------------------------------------------------------------------------
(* Properties. *)

Modified(ts) == {i \in DOMAIN ts : ts[i].isModified}

\* C1: the registry holds at least one tab and activeTabId is the id of a
\* tab of the registry, in every state.
C1_RegistryInvariant ==
    Len(tabs) >= 1 /\ activeTabId \in Ids(tabs)

\* C2: a modified tab leaves the registry only in the step that resumes
\* its close request with the answer yes; a close request resumed with the
\* answer no, or with the prompt failing, leaves the tab list and
\* activeTabId as they are.
C2_CloseGuard ==
    [][/\ \A i \in Modified(tabs) :
              tabs[i].id \notin Ids(tabs')
              => /\ reply' = replyOf("close", "yes")
                 /\ \E op \in pending \ pending' :
                        op.kind = "close" /\ op.tabId = tabs[i].id
       /\ (reply'.kind = "close" /\ reply'.result \in {"no", "error"})
              => tabs' = tabs /\ activeTabId' = activeTabId]_vars

\* A close request of a modified tab was declined and the tab is there.
C2_Declined ==
    /\ reply = replyOf("close", "no")
    /\ Modified(tabs) # {}
    /\ pending = {}

\* C3: with a modified tab in the registry, active or not, the window
\* closes only in the step that resumes the close request with the
\* user's answer yes.
C3_WindowCloseAsks ==
    [][(windowOpen /\ ~windowOpen' /\ Modified(tabs) # {})
           => reply' = replyOf("window", "yes")]_vars

\* The same document: '' and '<p></p>' are both the empty document.
sameDocument(a, b) == setContentThenGetHTML(a) = setContentThenGetHTML(b)

\* C4: a tab's isModified is true exactly when its content differs from
\* the content last opened into it or saved from it.
C4_ModifiedIffDiverged ==
    \A i \in DOMAIN tabs :
        tabs[i].isModified <=> ~sameDocument(tabs[i].content, tabs[i].persisted)

\* C5: an open or open-recent started on a modified active tab waits at
\* the discard prompt, and resumed with the answer no it ends there: no
\* dialog or read is awaited, and the tabs, activeTabId, the editor and the
\* recent files are unchanged.
C5_OpenGuard ==
    [][/\ \A op \in pending' \ pending :
              (/\ op.kind \in {"open", "recent"}
               /\ reply' = NoReply
               /\ activeTabOf(tabs, activeTabId).isModified)
              => op.pc = "confirm"
       /\ \A op \in pending \ pending' :
              (/\ op.kind \in {"open", "recent"}
               /\ op.pc = "confirm"
               /\ reply' = replyOf(op.kind, "no"))
              => /\ pending' = pending \ {op}
                 /\ UNCHANGED <<tabs, activeTabId, recentFiles, storage,
                                editorHTML>>]_vars

\* An open on a modified active tab was declined.
C5_Declined ==
    /\ reply = replyOf("open", "no")
    /\ activeTabOf(tabs, activeTabId).isModified
    /\ pending = {}

\* C6: with no handler suspended, the editor holds the content of the
\* active tab.
C6_SurfaceShowsActiveTab ==
    (windowOpen /\ pending = {})
        => sameDocument(editorHTML, activeTabOf(tabs, activeTabId).content)

\* The step runs closeTab(id): the close button or Ctrl+W on an unmodified
\* tab, or a close request resumed with the answer yes.
ClosesTab(id) ==
    \/ /\ id \in Ids(tabs)
       /\ ~tabs[findIndex(tabs, id)].isModified
       /\ HandleCloseTab(id)
    \/ \E op \in pending : op.tabId = id /\ CloseTabAnswered(op, "yes")

\* C7: closing the only tab leaves one tab, with the default fields and an
\* id that is not the closed tab's.
C7_CloseOnlyTab ==
    [][\A id \in Ids(tabs) :
           (Len(tabs) = 1 /\ ClosesTab(id))
           => /\ Len(tabs') = 1
              /\ tabs'[1] = newTab(tabs'[1].id)
              /\ tabs'[1].id # id]_vars

\* C8: the tabs of the registry have pairwise distinct ids.
C8_DistinctIds ==
    \A i, j \in DOMAIN tabs : i # j => tabs[i].id # tabs[j].id

\* A tab as createNewTab and closeTab make it.
Fresh(t) == t = newTab(t.id)

\* C9: a content-changed notification carrying '<p></p>' for an active tab
\* that is as it was created stores the content and leaves isModified
\* false.
C9_EmptyNotification ==
    [][(/\ OnUpdate(EmptyDoc)
        /\ activeTabId \in Ids(tabs)
        /\ Fresh(activeTabOf(tabs, activeTabId)))
           => /\ activeTabOf(tabs', activeTabId').content = EmptyDoc
              /\ ~activeTabOf(tabs', activeTabId').isModified]_vars

\* The active tab holds '<p></p>', from a notification, and is unmodified.
C9_Notified ==
    /\ activeTabId \in Ids(tabs)
    /\ activeTabOf(tabs, activeTabId).content = EmptyDoc
    /\ activeTabOf(tabs, activeTabId).filePath = Null
    /\ ~activeTabOf(tabs, activeTabId).isModified

\* C10: the step that completes an open or a save leaves the tab it binds
\* unmodified, and an unmodified tab becomes modified only in a step that
\* is a content-changed notification of the user's editing.
C10_BoundTabUnmodified ==
    [][/\ \A op \in pending \ pending' :
              (/\ op.pc \in {"read", "write"}
               /\ reply' \in {replyOf(op.kind, "read"),
                              replyOf(op.kind, "written")})
              => \A i \in DOMAIN tabs' :
                     tabs'[i].id = op.active
                     => ~tabs'[i].isModified /\ tabs'[i].filePath = op.path
       /\ \A i \in DOMAIN tabs :
              (/\ i \in DOMAIN tabs'
               /\ tabs'[i].id = tabs[i].id
               /\ ~tabs[i].isModified
               /\ tabs'[i].isModified)
              => \E c \in FileDocs : OnUpdate(c)]_vars

\* A file was opened into the active tab and mounted in the editor, whose
\* serialization differs from the tab's content; the tab is unmodified.
C10_OpenedAndMounted ==
    /\ reply.result = "read"
    /\ activeTabOf(tabs, activeTabId).filePath # Null
    /\ ~activeTabOf(tabs, activeTabId).isModified
    /\ editorHTML = setContentThenGetHTML(activeTabOf(tabs, activeTabId).content)
    /\ editorHTML # activeTabOf(tabs, activeTabId).content

\* The results with which an open, a save or a save-as ends without its
\* file: the dialog cancelled or failing, the read or the write failing.
FailureResults == {"cancelled", "dialogError", "readError", "writeError"}

\* C11: the step in which an open, open-recent, save or save-as ends with
\* a cancelled or failing dialog, a failing read or a failing write leaves
\* the tab list and activeTabId as they are, and for open, save and save-as
\* the recent files too.
C11_FailureChangesNothing ==
    [][(reply'.kind \in {"open", "recent", "save"}
        /\ reply'.result \in FailureResults)
           => /\ tabs' = tabs
              /\ activeTabId' = activeTabId
              /\ reply'.kind \in {"open", "save"}
                     => recentFiles' = recentFiles]_vars

\* The read of an open failed with a recent-files list that is not empty
\* and a tab bound to a file.
C11_OpenReadFailed ==
    /\ reply = replyOf("open", "readError")
    /\ recentFiles # <<>>
    /\ activeTabOf(tabs, activeTabId).filePath # Null

\* C12: in every state the tab Ctrl+Tab and Ctrl+Shift+Tab read is a tab
\* of the list, so that neither throws, and with an activeTabId that is the
\* id of no tab an edit is stored in the first tab.
C12_CommandsComplete ==
    /\ cycleNextIndex(tabs, activeTabId) \in DOMAIN tabs
    /\ cyclePreviousIndex(tabs, activeTabId) \in DOMAIN tabs
    /\ activeTabId \notin Ids(tabs)
           => \A c \in Docs :
                  updateTabContent(tabs, activeTabId, c, TRUE)[1].content = c

NoDuplicates(s) == \A i, j \in DOMAIN s : i # j => s[i] # s[j]

\* x stands before y in the list s.
precedes(s, x, y) ==
    \E i, j \in DOMAIN s : i < j /\ s[i] = x /\ s[j] = y

\* C13: after every add and remove the recent files hold no path twice and
\* at most 10 paths; an add puts its path first and keeps the other paths
\* of the new list in the order they had, and when the path was in the
\* list no path is lost; adding a, b, a to the empty list gives [a, b].
C13_RecentList ==
    [][/\ NoDuplicates(recentFiles')
       /\ Len(recentFiles') <= RecentCapacity
       /\ \A f \in RecentPaths :
              AddToRecentFiles(f, TRUE)
              => /\ recentFiles'[1] = f
                 /\ Range(recentFiles') \subseteq Range(recentFiles) \cup {f}
                 /\ \A x, y \in Range(recentFiles') \ {f} :
                        precedes(recentFiles', x, y)
                            <=> precedes(recentFiles, x, y)
                 /\ f \in Range(recentFiles)
                        => Range(recentFiles') = Range(recentFiles)
       /\ addToRecentList(addToRecentList(addToRecentList(<<>>, 1), 2), 1)
              = <<1, 2>>]_vars

\* The last path of a full list was added again: it is first and the list
\* is still full.
C13_FullListReordered ==
    /\ Len(recentFiles) = RecentCapacity
    /\ recentFiles[1] = 1
    /\ recentFiles[2] = RecentCapacity

\* C14: with activeTabId the id of the i-th tab, Ctrl+Tab activates the
\* tab after it, the first after the last, and Ctrl+Shift+Tab the tab
\* before it, the last before the first; neither changes the tab list.
C14_Cycle ==
    [][\A i \in DOMAIN tabs :
           tabs[i].id = activeTabId
           => /\ CycleNext
                     => /\ activeTabId' = tabs[(i % Len(tabs)) + 1].id
                        /\ tabs' = tabs
              /\ CyclePrevious
                     => /\ activeTabId' =
                               tabs[IF i = 1 THEN Len(tabs) ELSE i - 1].id
                        /\ tabs' = tabs]_vars

\* The list s without its i-th entry.
removeAt(s, i) == SubSeq(s, 1, i - 1) \o SubSeq(s, i + 1, Len(s))

\* C15: a step that runs closeTab with the id of the i-th of several tabs
\* leaves the list without that one tab, the others as they were and in
\* their order; activeTabId becomes the id of the last remaining tab when
\* the closed tab was the active one, and is unchanged when it was not.
C15_CloseTab ==
    [][\A i \in DOMAIN tabs :
           (Len(tabs) > 1 /\ ClosesTab(tabs[i].id))
           => /\ tabs' = removeAt(tabs, i)
              /\ activeTabId' = IF tabs[i].id = activeTabId
                                THEN tabs'[Len(tabs')].id
                                ELSE activeTabId]_vars

\* C16: no prompt is awaited for an unmodified tab.  The close of an
\* unmodified tab suspends nothing and removes the tab; an open or
\* open-recent on an unmodified active tab awaits the dialog or the read,
\* not the prompt; a window-close request with no modified tab closes the
\* window.
C16_NoPromptWhenUnmodified ==
    [][/\ \A id \in Ids(tabs) :
              (~tabs[findIndex(tabs, id)].isModified /\ HandleCloseTab(id))
              => /\ pending' = pending
                 /\ \/ Len(tabs') < Len(tabs) /\ id \notin Ids(tabs')
                    \/ /\ \A i \in DOMAIN tabs : tabs[i].id = id
                       /\ Len(tabs') = 1
                       /\ Fresh(tabs'[1])
       /\ (~activeTabOf(tabs, activeTabId).isModified
           /\ (HandleOpenFile \/ \E f \in Range(recentFiles) :
                                     HandleOpenRecentFile(f)))
              => \A op \in pending' \ pending : op.pc \in {"dialog", "read"}
       /\ (Modified(tabs) = {} /\ HandleWindowClose)
              => ~windowOpen' /\ pending' = pending]_vars

\* The window was closed with no prompt on a tab that is bound to a file
\* and unmodified.
C16_ClosedUnasked ==
    /\ ~windowOpen
    /\ reply = NoReply
    /\ Modified(tabs) = {}
    /\ \E i \in DOMAIN tabs : tabs[i].filePath # Null

\* C17: a replaceNext or replaceAll that changes the editor's content
\* leaves the active tab with that content and with the isModified that
\* onUpdate computes for it.
C17_ReplaceUpdatesRegistry ==
    [][((ReplaceNextClicked \/ ReplaceAllClicked)
        /\ editorHTML' # editorHTML)
           => /\ activeTabOf(tabs', activeTabId').content = editorHTML'
              /\ activeTabOf(tabs', activeTabId').isModified
                     = isModifiedOnUpdate(
                           editorHTML',
                           activeTabOf(tabs, activeTabId).content)]_vars

\* The query, taken as literal text, occurs in content at position i.
occursAt(query, content, i, caseSensitive) ==
    /\ i + Len(query) - 1 <= Len(content)
    /\ \A k \in DOMAIN query :
           IF caseSensitive THEN content[i + k - 1] = query[k]
           ELSE canonicalize(content[i + k - 1]) = canonicalize(query[k])

\* The number of non-overlapping occurrences of a non-empty query in
\* content from position i on, scanned from the left.
RECURSIVE occurrences(_, _, _, _)
occurrences(query, content, i, caseSensitive) ==
    IF i + Len(query) - 1 > Len(content) THEN 0
    ELSE IF occursAt(query, content, i, caseSensitive)
    THEN 1 + occurrences(query, content, i + Len(query), caseSensitive)
    ELSE occurrences(query, content, i + 1, caseSensitive)

\* A step in which findNext runs on the editor's content as it is before
\* the step: the auto-search effect after a change of the query or of the
\* checkbox, and the Find Next button.
FindNextRuns ==
    /\ dialog.open
    /\ UNCHANGED editorHTML
    /\ \/ SetFindText(dialog'.findText)
       \/ SetCaseSensitive(dialog'.caseSensitive)
       \/ FindNextClicked

\* C18: for a non-empty query, the match count findNext sets is the number
\* of non-overlapping occurrences of the query, taken as literal text, in
\* the serialized content, letter case ignored unless caseSensitive is set.
C18_FindNextCountsLiteralOccurrences ==
    [][(dialog'.findText # <<>> /\ FindNextRuns)
           => dialog'.totalMatches
                  = occurrences(dialog'.findText, editorHTML, 1,
                                dialog'.caseSensitive)]_vars

\* The query "." has its one occurrence counted in '<p>.a</p>'.
C18_DotCountedOnce ==
    /\ dialog.open
    /\ dialog.findText = <<".">>
    /\ editorHTML = Para(<<".", "a">>)
    /\ dialog.totalMatches = 1

\* C19: after findNext has run, the match count is 0 when the query is
\* empty or has no occurrence in the content, whatever it was before.
C19_ZeroWhenEmptyOrAbsent ==
    [][(FindNextRuns
        /\ \/ dialog'.findText = <<>>
           \/ occurrences(dialog'.findText, editorHTML, 1,
                          dialog'.caseSensitive) = 0)
           => dialog'.totalMatches = 0]_vars

\* The content in which every occurrence of a non-empty query, from
\* position i on, is replaced by the replacement text itself.
RECURSIVE replaceEvery(_, _, _, _, _)
replaceEvery(query, content, i, caseSensitive, replacement) ==
    IF i > Len(content) THEN <<>>
    ELSE IF occursAt(query, content, i, caseSensitive)
    THEN replacement
         \o replaceEvery(query, content, i + Len(query), caseSensitive,
                         replacement)
    ELSE <<content[i]>>
         \o replaceEvery(query, content, i + 1, caseSensitive, replacement)

\* C20: replaceAll with a non-empty query leaves the editor with the
\* content in which every occurrence of the query is replaced by the
\* replacement text itself, and the count the dialog reports is the number
\* of occurrences replaced.
C20_ReplaceAll ==
    [][(ReplaceAllClicked /\ dialog.findText # <<>>)
           => /\ editorHTML'
                     = setContentThenGetHTML(
                           replaceEvery(dialog.findText, editorHTML, 1,
                                        dialog.caseSensitive,
                                        dialog.replaceText))
              /\ dialog'.totalMatches
                     = occurrences(dialog.findText, editorHTML, 1,
                                   dialog.caseSensitive)]_vars

\* The content in which the first occurrence of a non-empty query, from
\* position i on, is replaced by the replacement text itself.
RECURSIVE replaceFirst(_, _, _, _, _)
replaceFirst(query, content, i, caseSensitive, replacement) ==
    IF i > Len(content) THEN <<>>
    ELSE IF occursAt(query, content, i, caseSensitive)
    THEN replacement \o SubSeq(content, i + Len(query), Len(content))
    ELSE <<content[i]>>
         \o replaceFirst(query, content, i + 1, caseSensitive, replacement)

\* C21: replaceNext with a non-empty query leaves the editor with the
\* content in which the first occurrence of the query is replaced by the
\* replacement text itself, every later occurrence and all other text as
\* they were; with an empty query or no occurrence the content is unchanged.
C21_ReplaceNext ==
    [][ReplaceNextClicked
           => IF dialog.findText = <<>>
                 \/ occurrences(dialog.findText, editorHTML, 1,
                                dialog.caseSensitive) = 0
              THEN editorHTML' = editorHTML
              ELSE editorHTML'
                       = setContentThenGetHTML(
                             replaceFirst(dialog.findText, editorHTML, 1,
                                          dialog.caseSensitive,
                                          dialog.replaceText))]_vars

\* C22: the step in which the read of an open-recent fails, the list being
\* stored, leaves the recent files without the path of the read and the
\* other paths in the order they had, and the tab list and activeTabId as
\* they were.
C22_UnreadableRecentRemoved ==
    [][\A op \in pending :
           (op.kind = "recent" /\ FileReadFailed(op, TRUE))
           => /\ recentFiles' = removeFromRecentList(recentFiles, op.path)
              /\ tabs' = tabs
              /\ activeTabId' = activeTabId]_vars

\* The list stored in localStorage: the empty list when there is no item.
storedList(text) == IF text = <<>> THEN <<>> ELSE parse(text)

\* C23: after the hydration at startup and after every add and remove,
\* recentFiles is the list stored in localStorage; an add or remove whose
\* write to localStorage fails leaves both as they were.
C23_MemoryEqualsStored ==
    [][/\ recentFiles = storedList(storage)
       /\ recentFiles' = storedList(storage')
       /\ \A f \in RecentPaths :
              (AddToRecentFiles(f, FALSE) \/ RemoveFromRecentFiles(f, FALSE))
              => UNCHANGED <<recentFiles, storage>>]_vars

\* The session found the list [2, 1] stored and path 1 was added again.
C23_HydratedThenAdded ==
    /\ recentFiles = <<1, 2>>
    /\ storage = stringify(<<1, 2>>)

\* C24: createNewTab appends one tab, with title 'Untitled', filePath null,
\* content '' and isModified false, and makes its id the activeTabId; the
\* tabs there were keep their positions and their fields.
C24_CreateTab ==
    [][CreateNewTabAmong(MaxBarTabs)
           => /\ Len(tabs') = Len(tabs) + 1
              /\ SubSeq(tabs', 1, Len(tabs)) = tabs
              /\ tabs'[Len(tabs')].title = Untitled
              /\ tabs'[Len(tabs')].filePath = Null
              /\ tabs'[Len(tabs')].content = <<>>
              /\ ~tabs'[Len(tabs')].isModified
              /\ activeTabId' = tabs'[Len(tabs')].id]_vars

\* A third tab was created after a tab that is modified; it is the active
\* one.
C24_ThirdTabCreated ==
    /\ Len(tabs) = 3
    /\ tabs[1].isModified
    /\ Fresh(tabs[3])
    /\ activeTabId = tabs[3].id
    /\ activeTabId # tabs[2].id

\* C25: a click on the tab whose id is activeTabId changes nothing:
\* activeTabId, the tabs and the content mounted in the editor are as they
\* were, so that the content is not mounted again.
C25_ActivateActive ==
    [][SelectTab(activeTabId)
           => UNCHANGED <<tabs, activeTabId, editorHTML>>]_vars

\* The active tab is a tab of the list and the editor holds a document that
\* is not the tab's content: mounting the content again would show.
C25_MountWouldShow ==
    /\ windowOpen
    /\ activeTabId \in Ids(tabs)
    /\ ~sameDocument(editorHTML, activeTabOf(tabs, activeTabId).content)

C27_ModifiedOnNotification ==
    [][\A c \in FileDocs :
           (OnUpdate(c) /\ activeTabId \in Ids(tabs))
           => activeTabOf(tabs', activeTabId').isModified
                  = ~(/\ c = EmptyDoc
                      /\ sameDocument(
                             c, activeTabOf(tabs, activeTabId).persisted))]_vars

\* The position of the tab shown as active: that of activeTab, the first
\* tab with the id activeTabId, or the first tab when there is none.
shownIndex(ts, id) == IF findIndex(ts, id) = 0 THEN 1 ELSE findIndex(ts, id)

\* C28: a content-changed notification stores the editor's content in the
\* tab shown as active and changes nothing else: that tab keeps its id,
\* title and filePath, every other tab is as it was, and the order of the
\* tabs and activeTabId are unchanged.
C28_NotificationFrame ==
    [][\A c \in Docs :
           OnUpdate(c)
           => LET k == shownIndex(tabs, activeTabId)
              IN  /\ DOMAIN tabs' = DOMAIN tabs
                  /\ tabs'[k].content = c
                  /\ tabs'[k].id = tabs[k].id
                  /\ tabs'[k].title = tabs[k].title
                  /\ tabs'[k].filePath = tabs[k].filePath
                  /\ \A i \in DOMAIN tabs \ {k} : tabs'[i] = tabs[i]
                  /\ activeTabId' = activeTabId]_vars

\* C29: when the close request of a tab is resumed with the answer yes
\* after activeTabId changed during the prompt, in a registry of several
\* tabs with distinct ids of which activeTabId is one, activeTabId is
\* afterwards the id of a tab, and it is unchanged when the closed tab is
\* not the active one.
C29_CloseAtConfirmation ==
    [][\A op \in pending :
           (/\ C8_DistinctIds
            /\ Len(tabs) > 1
            /\ activeTabId \in Ids(tabs)
            /\ op.active # activeTabId
            /\ CloseTabAnswered(op, "yes"))
           => /\ activeTabId' \in Ids(tabs')
              /\ op.tabId # activeTabId => activeTabId' = activeTabId]_vars

\* C30: the step in which an opened file replaces the content of a tab
\* that is modified replaces the content the user agreed to discard: the
\* tab holds no edit made after the answer, and none when no prompt was
\* shown.
C30_OpenKeepsUnsavedEdits ==
    [][\A op \in pending, t \in FileTexts, ok \in BOOLEAN :
           FileRead(op, t, ok)
           => \A i \in DOMAIN tabs :
                  (tabs[i].id = op.active /\ tabs[i].isModified)
                  => op.agreed = <<tabs[i].content>>]_vars

\* C31: when a save or a save-as completes, the tab that becomes bound to
\* the chosen path is the tab whose content was written to that path: the
\* completion changes no tab but the one the written content was read from,
\* whatever tab was selected while the dialog or the write was pending.
C31_BoundTabIsWrittenTab ==
    [][\A op \in pending :
          (op.kind = "save" /\ op.pc = "write"
           /\ \E ok \in BOOLEAN : FileWritten(op, ok))
          => \A i \in DOMAIN tabs :
                 tabs'[i] # tabs[i] => tabs[i].id = op.source]_vars


\* C32: when file operations overlap at their awaits, no add and no remove
\* of a recent file is lost: an operation that completes with success (and
\* localStorage accepting the list) leaves in the recent files its own path
\* and exactly the paths that were listed just before it completed.  Two
\* paths exist, so the capacity of ten is never reached.
C32_NoRecentUpdateLost ==
    [][\A op \in pending :
          (op.pc \in {"write", "read"}
           /\ (FileWritten(op, TRUE)
               \/ \E t \in FileTexts : FileRead(op, t, TRUE)))
          => Range(recentFiles') = Range(recentFiles) \cup {op.path}]_vars


\* C33: while the dialog is open with a non-empty query, after the Find
\* Next, the Replace and the Replace All button the match count shown is
\* the number of occurrences of the query in the content as it is after the
\* step, also when the text put in by replaceAll contains the query.
C33_CountAfterButtons ==
    [][(/\ dialog.open
        /\ dialog'.findText # <<>>
        /\ (FindNextClicked \/ ReplaceNextClicked \/ ReplaceAllClicked))
           => dialog'.totalMatches
                  = occurrences(dialog'.findText, editorHTML', 1,
                                dialog'.caseSensitive)]_vars


\* C34: Enter runs findNext and Shift+Enter runs replaceNext with the find
\* text, the replace text and the case sensitivity the dialog shows: a step
\* of Enter is the step the Find Next button would take, and a step of
\* Shift+Enter that changes the document is the step the Replace button
\* would take.
C34_KeysUseShownValues ==
    [][/\ EnterPressed => FindNextClicked
       /\ (ShiftEnterPressed /\ editorHTML' # editorHTML)
              => ReplaceNextClicked]_vars

=============================================================================
